---------------------------- MODULE Spec2Model ----------------------------
(***************************************************************************)
(* The JWL equation of state of singularity-eos (eos_jwl.hpp) as a state   *)
(* machine: one model instance (its seven parameters), and the calls that  *)
(* threads or device lanes make on it.                                     *)
(*                                                                         *)
(* `Real` is binary floating point.  It is modelled as binary floating     *)
(* point with a significand of Precision bits (round to nearest, ties to   *)
(* even, unbounded exponent), so that rounding, absorption and             *)
(* cancellation happen in the model as they do in the code, only at a      *)
(* coarser grain.  A Real is the record [m, e] of value m * 2^e, with      *)
(* m = 0, e = 0 or 2^(Precision-1) <= |m| < 2^Precision: one record per    *)
(* value, so record equality is numeric equality.                          *)
(***************************************************************************)
EXTENDS Integers, Sequences, FiniteSets

\* Bits of the significand of a Real (53 in a double; reduced here).
Precision == 8

\* Threads or device lanes calling into the one instance.
NumLanes == 2

\* Iteration budget of the root finder.
MaxIter == 24

---------------------------------------------------------------------------
(* Floating-point arithmetic of `Real`.                                    *)

Pow2(n) == 2 ^ n

\* The number of bits of 0 <= n < 2^31.
BitLen(n) ==
    IF n = 0 THEN 0
    ELSE IF n >= Pow2(30) THEN 31
    ELSE CHOOSE k \in 1 .. 30 : Pow2(k - 1) <= n /\ n < Pow2(k)

\* The values of Real: significand and exponent.
Reals == [m : Int, e : Int]

Zero == [m |-> 0, e |-> 0]

Sign(n) == IF n < 0 THEN -1 ELSE IF n > 0 THEN 1 ELSE 0

Abs(n) == IF n < 0 THEN -n ELSE n

\* The quotient q of a division that left remainder r, to nearest: up past
\* half, and on a tie to the even neighbour.
Nearest(q, r, half) ==
    IF r > half \/ (r = half /\ q % 2 = 1) THEN q + 1 ELSE q

\* The significand q, rounded; rounding up to 2^Precision carries into the
\* exponent.
Carry(s, q, e) ==
    IF q = Pow2(Precision)
    THEN [m |-> s * Pow2(Precision - 1), e |-> e + 1]
    ELSE [m |-> s * q, e |-> e]

\* s * a * 2^e for a > 0 of L bits, as a Real.
Normalize(s, a, e, L) ==
    IF L <= Precision
    THEN [m |-> s * a * Pow2(Precision - L), e |-> e - (Precision - L)]
    ELSE Carry(s, Nearest(a \div Pow2(L - Precision), a % Pow2(L - Precision),
                          Pow2(L - Precision - 1)),
               e + (L - Precision))

\* n * 2^e rounded to a Real: to nearest, ties to even.
RoundReal(n, e) ==
    IF n = 0 THEN Zero ELSE Normalize(Sign(n), Abs(n), e, BitLen(Abs(n)))

\* An integer literal, and a literal n / d (4.15 is Lit(415, 100)).
FromInt(n) == RoundReal(n, 0)

FNeg(a) == [m |-> -a.m, e |-> a.e]

FAbs(a) == [m |-> Abs(a.m), e |-> a.e]

\* hi + lo, lo of the smaller exponent by d places: lo is aligned under hi;
\* past Precision + 2 places only its sign is kept (it can still break a tie).
Align(hi, lo, d) ==
    RoundReal(IF d > Precision + 2
              THEN hi.m * Pow2(Precision + 3) + Sign(lo.m)
              ELSE hi.m * Pow2(d) + lo.m,
              IF d > Precision + 2 THEN hi.e - (Precision + 3) ELSE lo.e)

FAdd(a, b) ==
    IF a.m = 0 THEN b
    ELSE IF b.m = 0 THEN a
    ELSE Align(IF a.e >= b.e THEN a ELSE b, IF a.e >= b.e THEN b ELSE a,
               Abs(a.e - b.e))

FSub(a, b) == FAdd(a, FNeg(b))

FMul(a, b) == RoundReal(a.m * b.m, a.e + b.e)

\* s * na / nb * 2^e with na, nb > 0: the quotient and a sticky bit.
Quotient(s, na, nb, e) ==
    RoundReal(s * (2 * (na \div nb) + (IF na % nb = 0 THEN 0 ELSE 1)), e - 1)

\* a / b for b # 0: the quotient to Precision + 2 places.
FDiv(a, b) ==
    IF a.m = 0 THEN Zero
    ELSE Quotient(Sign(a.m) * Sign(b.m), Abs(a.m) * Pow2(Precision + 2), Abs(b.m),
                  a.e - b.e - (Precision + 2))

Lit(n, d) == FDiv(FromInt(n), FromInt(d))

\* Rounding keeps the sign of an exact difference, and no difference of two
\* distinct Reals rounds to zero.
FLt(a, b) == FSub(a, b).m < 0

FLe(a, b) == FSub(a, b).m <= 0

One == FromInt(1)

\* std::exp.  The argument goes to fixed point (ExpScale units), is reduced to
\* x = k * ln 2 + r with 0 <= r < ln 2, and exp(r) is summed from its series;
\* the result 2^k * exp(r) is rounded to a Real.  Below ExpUnderflow the
\* result underflows to zero, as exp does in a double.
ExpScale == 32768

ExpScaleBits == 15

Ln2Fixed == 22713

ExpUnderflow == 745

\* x in ExpScale units, to the nearest integer (|x| <= ExpUnderflow).
ToFixed(x) ==
    IF x.e + ExpScaleBits >= 0 THEN x.m * Pow2(x.e + ExpScaleBits)
    ELSE IF -(x.e + ExpScaleBits) > 2 * ExpScaleBits THEN 0
    ELSE (x.m + Pow2(-(x.e + ExpScaleBits) - 1)) \div Pow2(-(x.e + ExpScaleBits))

\* One more term of the series 1 + r (1 + r/2 (1 + r/3 (...))): 1 + r/k * h.
ExpTerm(r, k, h) == ExpScale + (r * h) \div (k * ExpScale)

\* exp(r) in ExpScale units for 0 <= r < ln 2: the series to its tenth term.
ExpSeries(r) ==
    ExpTerm(r, 1, ExpTerm(r, 2, ExpTerm(r, 3, ExpTerm(r, 4, ExpTerm(r, 5,
    ExpTerm(r, 6, ExpTerm(r, 7, ExpTerm(r, 8, ExpTerm(r, 9,
    ExpTerm(r, 10, ExpScale))))))))))

\* exp of xf ExpScale units: 2^k * exp(r) with xf = k * ln 2 + r.
ExpFixed(xf) ==
    RoundReal(ExpSeries(xf % Ln2Fixed), (xf \div Ln2Fixed) - ExpScaleBits)

FExp(x) ==
    IF x.m = 0 THEN One
    ELSE IF FLt(x, FromInt(-ExpUnderflow)) THEN Zero
    ELSE ExpFixed(ToFixed(x))

Pow10(k) == << 1, 10, 100, 1000, 10000, 100000, 1000000, 10000000,
               100000000, 1000000000 >>[k + 1]

\* The literal n * 10^k (3.712e11 is Sci(3712, 8)).
Sci(n, k) == FMul(FromInt(n), FromInt(Pow10(k)))

---------------------------------------------------------------------------
(* State.                                                                  *)

VARIABLES
    eos,      \* the instance: its members _A, _B, _R1, _R2, _w, _rho0, _Cv
    built,    \* the arguments its constructor was given
    last,     \* the call that has just ended, until its caller moves on
    solve,    \* the inversion under way: its arguments and the root finder's state
    alive,    \* FALSE once a fatal error has stopped the process
    ncalls    \* calls made on the instance so far

vars == <<eos, built, last, solve, alive, ncalls>>

\* Calls made on one instance in a run.
MaxCalls == 2

Lanes == 1 .. NumLanes

\* JWL(A, B, R1, R2, w, rho0, Cv): the constructor copies its arguments.
JWL(A, B, R1, R2, w, rho0, Cv) ==
    [A |-> A, B |-> B, R1 |-> R1, R2 |-> R2, w |-> w, rho0 |-> rho0, Cv |-> Cv]

\* The instances built: the detonation-product model in SI units and in cgs.
Instances ==
    { JWL(Sci(3712, 8), Sci(321, 7), Lit(415, 100), Lit(95, 100), Lit(3, 10),
          FromInt(1630), FromInt(1000)),
      JWL(Sci(3712, 9), Sci(321, 8), Lit(415, 100), Lit(95, 100), Lit(3, 10),
          Lit(163, 100), Sci(1, 7)) }

---------------------------------------------------------------------------
(* The scalar kernels and the query operations.                            *)

ReferencePressure(rho) ==
    LET x == FDiv(eos.rho0, rho)
    IN  FAdd(FMul(eos.A, FExp(FMul(FNeg(eos.R1), x))),
             FMul(eos.B, FExp(FMul(FNeg(eos.R2), x))))

ReferenceEnergy(rho) ==
    LET x == FDiv(eos.rho0, rho)
    IN  FAdd(FMul(FDiv(eos.A, FMul(eos.rho0, eos.R1)), FExp(FMul(FNeg(eos.R1), x))),
             FMul(FDiv(eos.B, FMul(eos.rho0, eos.R2)), FExp(FMul(FNeg(eos.R2), x))))

\* An energy whose thermal term is measured from the ambient temperature, so
\* that it vanishes at T = 298.15 and not at T = 0.
InternalEnergyAboveAmbient(rho, temp) ==
    FAdd(ReferenceEnergy(rho), FMul(eos.Cv, FSub(temp, Lit(29815, 100))))

InternalEnergyFromDensityTemperature(rho, temp) ==
    FAdd(ReferenceEnergy(rho), FMul(eos.Cv, temp))

PressureFromDensityInternalEnergy(rho, sie) ==
    FAdd(ReferencePressure(rho),
         FMul(FMul(eos.w, rho), FSub(sie, ReferenceEnergy(rho))))

\* A temperature from the energy without the reference energy taken off: the
\* variant the round trip between temperature and energy tells apart.
TemperatureFromTotalEnergy(rho, sie) == FDiv(sie, eos.Cv)

TemperatureFromDensityInternalEnergy(rho, sie) ==
    FDiv(FSub(sie, ReferenceEnergy(rho)), eos.Cv)

SpecificHeatFromDensityInternalEnergy(rho, sie) == eos.Cv

BulkModulusFromDensityInternalEnergy(rho, sie) ==
    LET x == FDiv(eos.rho0, rho)
    IN  FAdd(FMul(FMul(FMul(FAdd(eos.w, One), eos.w), rho),
                  FSub(sie, ReferenceEnergy(rho))),
             FMul(x, FAdd(FMul(FMul(eos.A, eos.R1), FExp(FMul(FNeg(eos.R1), x))),
                          FMul(FMul(eos.B, eos.R2), FExp(FMul(FNeg(eos.R2), x))))))

GruneisenParamFromDensityInternalEnergy(rho, sie) == eos.w

\* A density+temperature pressure with a formula of its own (the thermal term
\* written out in temperature) instead of the density+energy path: the
\* duplicated logic that cross-pair agreement tells apart.
PressureFromOwnFormula(rho, temp) ==
    FAdd(FMul(FMul(FMul(eos.Cv, temp), rho), eos.w), ReferencePressure(rho))

PressureFromDensityTemperature(rho, temp) ==
    PressureFromDensityInternalEnergy(rho, InternalEnergyFromDensityTemperature(rho, temp))

SpecificHeatFromDensityTemperature(rho, temp) ==
    SpecificHeatFromDensityInternalEnergy(rho,
        InternalEnergyFromDensityTemperature(rho, temp))

BulkModulusFromDensityTemperature(rho, temp) ==
    BulkModulusFromDensityInternalEnergy(rho,
        InternalEnergyFromDensityTemperature(rho, temp))

GruneisenParamFromDensityTemperature(rho, temp) == eos.w

---------------------------------------------------------------------------
(* Diagnostics and errors.                                                 *)

\* EntropyIsNotEnabled(eosname): the "entropy not enabled" diagnostic naming
\* the model; the caller goes on.
EntropyIsNotEnabled(eosname) ==
    [kind |-> "diagnostic", operation |-> "Entropy", model |-> eosname,
     text |-> "entropy not enabled", values |-> <<>>, fatal |-> FALSE]

\* EOS_ERROR(msg): a fatal error carrying the message; the call does not go on.
EOS_ERROR(msg) ==
    [kind |-> "error", operation |-> msg.operation, model |-> "JWL",
     text |-> msg.text, values |-> msg.values, fatal |-> TRUE]

\* What a query hands back: its value, what it emitted, whether it returned.
Returns(v) == [ret |-> v, diag |-> <<>>, returned |-> TRUE]

EntropyFromDensityInternalEnergy(rho, sie) ==
    [ret |-> One, diag |-> <<EntropyIsNotEnabled("JWL")>>, returned |-> TRUE]

\* An entropy stub that hands back zero instead of the sentinel: the variant
\* the entropy property tells apart.
EntropyZero(rho, temp) ==
    [ret |-> Zero, diag |-> <<EntropyIsNotEnabled("JWL")>>, returned |-> TRUE]

EntropyFromDensityTemperature(rho, temp) ==
    [ret |-> One, diag |-> <<EntropyIsNotEnabled("JWL")>>, returned |-> TRUE]

---------------------------------------------------------------------------
(* The root finder (regula falsi).                                         *)

\* |d| within the tolerance, absolutely or relative to ref.
WithinTol(d, tol, ref) ==
    FLe(FAbs(d), tol) \/ FLe(FAbs(d), FMul(tol, FAbs(ref)))

\* regula_falsi solves f(x) = ytarget on [a, b].  Its run is a state machine
\* over the bracket, the residuals at its ends, the last estimate and the
\* iteration count; xroot is its output argument, written on success only.
\* Entry: the residuals at the ends; no sign change is "not bracketed".
regula_falsi(f, ytarget, guess, a, b, xtol, ytol, xroot) ==
    LET ya == FSub(f[a], ytarget)
        yb == FSub(f[b], ytarget)
    IN  [status |-> IF Sign(ya.m) * Sign(yb.m) > 0 THEN "NOT_BRACKETED" ELSE "ITERATING",
         ytarget |-> ytarget, xtol |-> xtol, ytol |-> ytol,
         lo |-> a, ylo |-> ya, hi |-> b, yhi |-> yb,
         xold |-> guess, xroot |-> xroot, iters |-> 0]

\* The false-position estimate between the ends of the bracket.
regula_falsi_estimate(st) ==
    IF st.yhi = st.ylo THEN st.hi
    ELSE FDiv(FSub(FMul(st.lo, st.yhi), FMul(st.hi, st.ylo)),
              FSub(st.yhi, st.ylo))

\* The convergence test at the estimate x of residual y, and the end of the
\* same sign replaced.
regula_falsi_update(st, x, y) ==
    IF WithinTol(FSub(x, st.xold), st.xtol, x) /\ WithinTol(y, st.ytol, st.ytarget)
    THEN [st EXCEPT !.status = "SUCCESS", !.xroot = x, !.xold = x,
                    !.iters = st.iters + 1]
    ELSE IF Sign(y.m) = Sign(st.ylo.m)
         THEN [st EXCEPT !.lo = x, !.ylo = y, !.xold = x, !.iters = st.iters + 1]
         ELSE [st EXCEPT !.hi = x, !.yhi = y, !.xold = x, !.iters = st.iters + 1]

\* One iteration: out of budget, or the estimate, its residual and the update.
regula_falsi_iterate(f, st) ==
    IF st.iters >= MaxIter THEN [st EXCEPT !.status = "MAX_ITER"]
    ELSE regula_falsi_update(st, regula_falsi_estimate(st),
                             FSub(f[regula_falsi_estimate(st)], st.ytarget))

---------------------------------------------------------------------------
(* The procedures.  Each gives its output arguments as they are when the   *)
(* call ends, and `this`, the instance's members as the call leaves them.  *)


\* A residual that is the thermal pressure alone, the reference pressure left
\* out: the variant the agreement of the residual with the forward path tells
\* apart.
PofRatTThermalOnly(temp, r) == FMul(FMul(FMul(eos.Cv, temp), r), eos.w)

\* The residual handed to the root finder.
PofRatT(temp, r) ==
    FAdd(FMul(FMul(FMul(eos.Cv, temp), r), eos.w), ReferencePressure(r))

\* What DensityEnergyFromPressureTemperature passes to regula_falsi.
RootFindArgs(rho) ==
    [guess |-> IF FLt(rho, Lit(1, 100000000)) THEN eos.rho0 ELSE rho,
     a     |-> Lit(1, 100000),
     b     |-> FromInt(1000),
     xtol  |-> Lit(1, 100000000),
     ytol  |-> Lit(1, 100000000)]

RootFindMessage ==
    [operation |-> "JWL::DensityEnergyFromPressureTemperature",
     text      |-> "Root find failed to find a solution given P, T",
     values    |-> <<>>]

\* DensityEnergyFromPressureTemperature from the finder's return on: res is
\* what regula_falsi ended with (its status, and rho as it left it).
DensityEnergyFromPressureTemperature(press, temp, rho, sie, res) ==
    IF res.status # "SUCCESS"
    THEN [rho |-> res.xroot, sie |-> sie, status |-> res.status,
          diag |-> <<EOS_ERROR(RootFindMessage)>>, returned |-> FALSE, this |-> eos]
    ELSE [rho |-> res.xroot,
          sie |-> InternalEnergyFromDensityTemperature(res.xroot, temp),
          status |-> res.status,
          diag |-> <<>>, returned |-> TRUE, this |-> eos]

\* thermalqs: an output mask is the set of the quantities whose bit is set.
Thermalqs ==
    {"density", "specific_internal_energy", "pressure", "temperature",
     "specific_heat", "bulk_modulus"}

\* A FillEos that takes no notice of the temperature bit and always writes the
\* temperature: the variant the frame property of FillEos tells apart.
FillEosWritesTemperature(rho, temp, sie, press, cv, bmod, output) ==
    [rho   |-> rho,
     temp  |-> TemperatureFromDensityInternalEnergy(rho, sie),
     sie   |-> sie,
     press |-> IF "pressure" \in output
               THEN PressureFromDensityInternalEnergy(rho, sie) ELSE press,
     cv    |-> IF "specific_heat" \in output
               THEN SpecificHeatFromDensityInternalEnergy(rho, sie) ELSE cv,
     bmod  |-> IF "bulk_modulus" \in output
               THEN BulkModulusFromDensityInternalEnergy(rho, sie) ELSE bmod,
     diag  |-> <<>>, returned |-> TRUE, this |-> eos]

\* A FillEos that keeps the specific heat it served as the instance's own: a
\* cache in the members, which the immutability of the parameters rules out.
FillEosCachingSpecificHeat(rho, temp, sie, press, cv, bmod, output) ==
    [rho   |-> rho,
     temp  |-> IF "temperature" \in output
               THEN TemperatureFromDensityInternalEnergy(rho, sie) ELSE temp,
     sie   |-> sie,
     press |-> IF "pressure" \in output
               THEN PressureFromDensityInternalEnergy(rho, sie) ELSE press,
     cv    |-> IF "specific_heat" \in output
               THEN SpecificHeatFromDensityInternalEnergy(rho, sie) ELSE cv,
     bmod  |-> IF "bulk_modulus" \in output
               THEN BulkModulusFromDensityInternalEnergy(rho, sie) ELSE bmod,
     diag  |-> <<>>, returned |-> TRUE, this |-> [eos EXCEPT !.Cv = cv]]

FillEos(rho, temp, sie, press, cv, bmod, output) ==
    [rho   |-> rho,
     temp  |-> IF "temperature" \in output
               THEN TemperatureFromDensityInternalEnergy(rho, sie) ELSE temp,
     sie   |-> sie,
     press |-> IF "pressure" \in output
               THEN PressureFromDensityInternalEnergy(rho, sie) ELSE press,
     cv    |-> IF "specific_heat" \in output
               THEN SpecificHeatFromDensityInternalEnergy(rho, sie) ELSE cv,
     bmod  |-> IF "bulk_modulus" \in output
               THEN BulkModulusFromDensityInternalEnergy(rho, sie) ELSE bmod,
     diag  |-> <<>>, returned |-> TRUE, this |-> eos]

ROOM_TEMPERATURE == Lit(29815, 100)

ATMOSPHERIC_PRESSURE == Sci(101325, 0)

\* A reference state that keeps the caller's density when the caller gave
\* one, and writes the reference density only over an empty one.
ReferenceStateKeepingDensity(rho0, temp0, sie0, press0, cv0, bmod0, dpde0, dvdt0) ==
    [rho |-> IF rho0.m = 0 THEN eos.rho0 ELSE rho0,
     temp |-> ROOM_TEMPERATURE,
     sie |-> InternalEnergyFromDensityTemperature(eos.rho0, ROOM_TEMPERATURE),
     press |-> ATMOSPHERIC_PRESSURE, cv |-> eos.Cv, bmod |-> bmod0,
     dpde |-> FMul(eos.w, eos.rho0), dvdt |-> dvdt0,
     diag |-> <<>>, returned |-> TRUE, this |-> eos]

ValuesAtReferenceState(rho0, temp0, sie0, press0, cv0, bmod0, dpde0, dvdt0) ==
    LET rho   == eos.rho0
        temp  == ROOM_TEMPERATURE
        sie   == InternalEnergyFromDensityTemperature(rho, temp)
        press == ATMOSPHERIC_PRESSURE
        cv    == eos.Cv
        bmod  == BulkModulusFromDensityInternalEnergy(rho, sie)
        dpde  == FMul(eos.w, eos.rho0)
        gm1   == FMul(GruneisenParamFromDensityInternalEnergy(rho, sie), rho)
        dvdt  == FDiv(FMul(gm1, cv), bmod)
    IN  [rho |-> rho, temp |-> temp, sie |-> sie, press |-> press, cv |-> cv,
         bmod |-> bmod, dpde |-> dpde, dvdt |-> dvdt,
         diag |-> <<>>, returned |-> TRUE, this |-> eos]

---------------------------------------------------------------------------
(* The callers' inputs.                                                    *)

\* Densities at and around the reference density, and temperatures.
Densities ==
    { FMul(eos.rho0, k) : k \in {Lit(1, 2), One, Lit(5, 4), FromInt(3)} }

Temperatures == { Zero, Lit(1, 1000000), Lit(29815, 100), Sci(1, 4) }

Energies(rho) ==
    { InternalEnergyFromDensityTemperature(rho, T) : T \in Temperatures } \cup {Zero}

\* The (density, energy) states FillEos is called on: a compressed and an
\* expanded density, each cold and at room temperature.
FillStates ==
    { <<rho, InternalEnergyFromDensityTemperature(rho, T)>> :
        rho \in { FMul(eos.rho0, Lit(1, 2)), FMul(eos.rho0, FromInt(3)) },
        T \in { Zero, Lit(29815, 100) } }

\* What the caller's output arguments hold before a call.
Priors ==
    { [temp |-> Zero, press |-> Zero, cv |-> Zero, bmod |-> Zero,
       dpde |-> Zero, dvdt |-> Zero],
      [temp |-> FromInt(3), press |-> FromInt(5), cv |-> FromInt(7),
       bmod |-> FromInt(11), dpde |-> FromInt(13), dvdt |-> FromInt(17)] }

\* Density guesses handed to the inversion: none (zero), or the caller's own.
Guesses == { Zero, FMul(eos.rho0, Lit(1, 2)), FMul(eos.rho0, FromInt(2)) }

\* Pressures asked of the inversion: the forward path's, and one no density gives.
Pressures(T) ==
    { PressureFromDensityTemperature(r, T) : r \in Densities } \cup { FromInt(-1) }

---------------------------------------------------------------------------
(* Actions: one per operation of the instance.                             *)

Idle == [op |-> "none", lane |-> 0, in |-> <<>>, out |-> Returns(Zero)]

NoSolve == [lane |-> 0, in |-> <<>>, finder |-> <<>>, rf |-> [status |-> "NONE"]]

Init ==
    /\ eos \in Instances
    /\ built = eos
    /\ last = Idle
    /\ solve = NoSolve
    /\ alive = TRUE
    /\ ncalls = 0

\* A call can start: the process runs, and no call is under way or unread.
CanCall ==
    /\ alive
    /\ last.op = "none"
    /\ solve.rf.status = "NONE"
    /\ ncalls < MaxCalls

\* Lane l calls op with arguments in; the call ends with out, leaving the
\* instance's members as this.  A fatal error stops the process.
Call(l, op, in, out, this) ==
    /\ last' = [op |-> op, lane |-> l, in |-> in, out |-> out]
    /\ alive' = \A i \in DOMAIN out.diag : ~out.diag[i].fatal
    /\ ncalls' = ncalls + 1
    /\ eos' = this
    /\ UNCHANGED <<built, solve>>

\* The caller takes the results and moves on.
Resume ==
    /\ alive
    /\ last.op # "none"
    /\ last' = Idle
    /\ UNCHANGED <<eos, built, solve, alive, ncalls>>

CallTemperatureFromDensityInternalEnergy ==
    /\ CanCall
    /\ \E l \in Lanes, rho \in Densities : \E sie \in Energies(rho) :
        Call(l, "TemperatureFromDensityInternalEnergy", [rho |-> rho, sie |-> sie],
             Returns(TemperatureFromDensityInternalEnergy(rho, sie)), eos)

CallInternalEnergyFromDensityTemperature ==
    /\ CanCall
    /\ \E l \in Lanes, rho \in Densities, temp \in Temperatures :
        Call(l, "InternalEnergyFromDensityTemperature", [rho |-> rho, temp |-> temp],
             Returns(InternalEnergyFromDensityTemperature(rho, temp)), eos)

CallPressureFromDensityTemperature ==
    /\ CanCall
    /\ \E l \in Lanes, rho \in Densities, temp \in Temperatures :
        Call(l, "PressureFromDensityTemperature", [rho |-> rho, temp |-> temp],
             Returns(PressureFromDensityTemperature(rho, temp)), eos)

CallPressureFromDensityInternalEnergy ==
    /\ CanCall
    /\ \E l \in Lanes, rho \in Densities : \E sie \in Energies(rho) :
        Call(l, "PressureFromDensityInternalEnergy", [rho |-> rho, sie |-> sie],
             Returns(PressureFromDensityInternalEnergy(rho, sie)), eos)

CallEntropyFromDensityTemperature ==
    /\ CanCall
    /\ \E l \in Lanes, rho \in Densities, temp \in Temperatures :
        Call(l, "EntropyFromDensityTemperature", [rho |-> rho, temp |-> temp],
             EntropyFromDensityTemperature(rho, temp), eos)

CallEntropyFromDensityInternalEnergy ==
    /\ CanCall
    /\ \E l \in Lanes, rho \in Densities : \E sie \in Energies(rho) :
        Call(l, "EntropyFromDensityInternalEnergy", [rho |-> rho, sie |-> sie],
             EntropyFromDensityInternalEnergy(rho, sie), eos)

CallSpecificHeatFromDensityTemperature ==
    /\ CanCall
    /\ \E l \in Lanes, rho \in Densities, temp \in Temperatures :
        Call(l, "SpecificHeatFromDensityTemperature", [rho |-> rho, temp |-> temp],
             Returns(SpecificHeatFromDensityTemperature(rho, temp)), eos)

CallSpecificHeatFromDensityInternalEnergy ==
    /\ CanCall
    /\ \E l \in Lanes, rho \in Densities : \E sie \in Energies(rho) :
        Call(l, "SpecificHeatFromDensityInternalEnergy", [rho |-> rho, sie |-> sie],
             Returns(SpecificHeatFromDensityInternalEnergy(rho, sie)), eos)

CallBulkModulusFromDensityTemperature ==
    /\ CanCall
    /\ \E l \in Lanes, rho \in Densities, temp \in Temperatures :
        Call(l, "BulkModulusFromDensityTemperature", [rho |-> rho, temp |-> temp],
             Returns(BulkModulusFromDensityTemperature(rho, temp)), eos)

CallBulkModulusFromDensityInternalEnergy ==
    /\ CanCall
    /\ \E l \in Lanes, rho \in Densities : \E sie \in Energies(rho) :
        Call(l, "BulkModulusFromDensityInternalEnergy", [rho |-> rho, sie |-> sie],
             Returns(BulkModulusFromDensityInternalEnergy(rho, sie)), eos)

CallGruneisenParamFromDensityTemperature ==
    /\ CanCall
    /\ \E l \in Lanes, rho \in Densities, temp \in Temperatures :
        Call(l, "GruneisenParamFromDensityTemperature", [rho |-> rho, temp |-> temp],
             Returns(GruneisenParamFromDensityTemperature(rho, temp)), eos)

CallGruneisenParamFromDensityInternalEnergy ==
    /\ CanCall
    /\ \E l \in Lanes, rho \in Densities : \E sie \in Energies(rho) :
        Call(l, "GruneisenParamFromDensityInternalEnergy", [rho |-> rho, sie |-> sie],
             Returns(GruneisenParamFromDensityInternalEnergy(rho, sie)), eos)

CallFillEos ==
    /\ CanCall
    /\ \E l \in Lanes, st \in FillStates, p \in Priors, output \in SUBSET Thermalqs :
        LET rho == st[1]
            sie == st[2]
            out == FillEos(rho, p.temp, sie, p.press, p.cv, p.bmod, output)
        IN  Call(l, "FillEos",
                 [rho |-> rho, temp |-> p.temp, sie |-> sie, press |-> p.press,
                  cv |-> p.cv, bmod |-> p.bmod, output |-> output],
                 out, out.this)

CallValuesAtReferenceState ==
    /\ CanCall
    /\ \E l \in Lanes, p \in Priors, rho \in {Zero} \cup Densities :
        LET out == ValuesAtReferenceState(rho, p.temp, p.press, p.press, p.cv,
                                          p.bmod, p.dpde, p.dvdt)
        IN  Call(l, "ValuesAtReferenceState",
                 [rho |-> rho, temp |-> p.temp, sie |-> p.press, press |-> p.press,
                  cv |-> p.cv, bmod |-> p.bmod, dpde |-> p.dpde, dvdt |-> p.dvdt],
                 out, out.this)

\* The inversion runs in steps: entry up to the root finder's first test, the
\* finder's iterations one by one, and the rest of the procedure once the
\* finder has returned.  No other call is taken while it runs.
CallDensityEnergyFromPressureTemperature ==
    /\ CanCall
    /\ \E l \in Lanes, temp \in Temperatures, rho \in Guesses, sie \in {Zero} :
      \E press \in Pressures(temp) :
        LET c    == RootFindArgs(rho)
            f    == [r \in Reals |-> PofRatT(temp, r)]
        IN  /\ solve' = [lane |-> l, finder |-> c,
                         in |-> [press |-> press, temp |-> temp, rho |-> rho, sie |-> sie],
                         rf |-> regula_falsi(f, press, c.guess, c.a, c.b,
                                             c.xtol, c.ytol, rho)]
            /\ ncalls' = ncalls + 1
            /\ UNCHANGED <<eos, built, last, alive>>

IterateRegulaFalsi ==
    LET f == [r \in Reals |-> PofRatT(solve.in.temp, r)]
    IN  /\ solve.rf.status = "ITERATING"
        /\ solve' = [solve EXCEPT !.rf = regula_falsi_iterate(f, solve.rf)]
        /\ UNCHANGED <<eos, built, last, alive, ncalls>>

ReturnDensityEnergyFromPressureTemperature ==
    /\ solve.rf.status \in {"SUCCESS", "NOT_BRACKETED", "MAX_ITER"}
    /\ LET in  == solve.in
           out == DensityEnergyFromPressureTemperature(in.press, in.temp, in.rho,
                                                       in.sie, solve.rf)
       IN  /\ last' = [op |-> "DensityEnergyFromPressureTemperature", lane |-> solve.lane,
                       in |-> in, out |-> out, finder |-> solve.finder,
                       iters |-> solve.rf.iters]
           /\ alive' = \A i \in DOMAIN out.diag : ~out.diag[i].fatal
           /\ eos' = out.this
    /\ solve' = NoSolve
    /\ UNCHANGED <<built, ncalls>>

Next ==
    \/ CallTemperatureFromDensityInternalEnergy
    \/ CallInternalEnergyFromDensityTemperature
    \/ CallPressureFromDensityTemperature
    \/ CallPressureFromDensityInternalEnergy
    \/ CallEntropyFromDensityTemperature
    \/ CallEntropyFromDensityInternalEnergy
    \/ CallSpecificHeatFromDensityTemperature
    \/ CallSpecificHeatFromDensityInternalEnergy
    \/ CallBulkModulusFromDensityTemperature
    \/ CallBulkModulusFromDensityInternalEnergy
    \/ CallGruneisenParamFromDensityTemperature
    \/ CallGruneisenParamFromDensityInternalEnergy
    \/ CallFillEos
    \/ CallValuesAtReferenceState
    \/ CallDensityEnergyFromPressureTemperature
    \/ IterateRegulaFalsi
    \/ ReturnDensityEnergyFromPressureTemperature
    \/ Resume

Spec == Init /\ [][Next]_vars

---------------------------------------------------------------------------
(* Properties.                                                             *)

\* C1: FillEos changes press, temp, bmod or cv only when that field's bit is
\* set in the output mask; a field whose bit is not set keeps the value it had
\* before the call, and rho and sie are never modified, whatever the mask.
C1_FillEosFrame ==
    last.op = "FillEos" =>
        /\ last.out.rho = last.in.rho
        /\ last.out.sie = last.in.sie
        /\ "pressure" \notin last.in.output => last.out.press = last.in.press
        /\ "temperature" \notin last.in.output => last.out.temp = last.in.temp
        /\ "bulk_modulus" \notin last.in.output => last.out.bmod = last.in.bmod
        /\ "specific_heat" \notin last.in.output => last.out.cv = last.in.cv

\* A FillEos call asked for the pressure and the bulk modulus only: it wrote
\* both and left the temperature and the specific heat as they were.
C1_Witness ==
    /\ last.op = "FillEos"
    /\ last.in.output = {"pressure", "bulk_modulus", "density"}
    /\ last.out.press # last.in.press
    /\ last.out.bmod # last.in.bmod
    /\ last.out.temp = last.in.temp
    /\ last.out.cv = last.in.cv
    /\ last.in.temp # TemperatureFromDensityInternalEnergy(last.in.rho, last.in.sie)

\* C2: each density+temperature operation returns exactly what the matching
\* density+energy operation returns at e = InternalEnergyFromDensityTemperature
\* (rho, T): pressure, specific heat, bulk modulus and Gruneisen parameter.
C2_CrossPairAgreement ==
    /\ last.op = "PressureFromDensityTemperature" =>
         last.out.ret = PressureFromDensityInternalEnergy(last.in.rho,
             InternalEnergyFromDensityTemperature(last.in.rho, last.in.temp))
    /\ last.op = "SpecificHeatFromDensityTemperature" =>
         last.out.ret = SpecificHeatFromDensityInternalEnergy(last.in.rho,
             InternalEnergyFromDensityTemperature(last.in.rho, last.in.temp))
    /\ last.op = "BulkModulusFromDensityTemperature" =>
         last.out.ret = BulkModulusFromDensityInternalEnergy(last.in.rho,
             InternalEnergyFromDensityTemperature(last.in.rho, last.in.temp))
    /\ last.op = "GruneisenParamFromDensityTemperature" =>
         last.out.ret = GruneisenParamFromDensityInternalEnergy(last.in.rho,
             InternalEnergyFromDensityTemperature(last.in.rho, last.in.temp))

\* A density+temperature pressure call returned, at a temperature whose
\* thermal term is part of the pressure it gave.
C2_Witness ==
    /\ last.op = "PressureFromDensityTemperature"
    /\ last.in.temp.m > 0
    /\ last.out.returned
    /\ last.out.ret # ReferencePressure(last.in.rho)

\* The unit roundoff of Real: half the spacing of the Reals next to 1.
UnitRoundoff == RoundReal(1, -Precision)

\* |d| is within four roundings of a quantity of the size of e plus c.
WithinRounding(d, e, c) ==
    FLe(FAbs(d), FMul(FMul(FromInt(4), UnitRoundoff), FAdd(FAbs(e), FAbs(c))))

\* C3 as stated: the temperature recovered from e = InternalEnergyFromDensity
\* Temperature(rho, T) equals T, and the energy re-evaluated at the recovered
\* temperature equals e.
C3_RoundTripExact ==
    last.op = "TemperatureFromDensityInternalEnergy" =>
        \A T \in Temperatures :
            InternalEnergyFromDensityTemperature(last.in.rho, T) = last.in.sie =>
                /\ last.out.ret = T
                /\ InternalEnergyFromDensityTemperature(last.in.rho, last.out.ret)
                       = last.in.sie

\* C3, amended: the temperature recovered from e = InternalEnergyFromDensity
\* Temperature(rho, T) equals T up to the rounding of the energy, that is
\* Cv * |T' - T| is within four unit roundoffs of |e| + |Cv * T|; and the energy
\* re-evaluated at the recovered temperature is within the same distance of e.
C3_RoundTripRounded ==
    last.op = "TemperatureFromDensityInternalEnergy" =>
        \A T \in Temperatures :
            InternalEnergyFromDensityTemperature(last.in.rho, T) = last.in.sie =>
                /\ WithinRounding(FMul(eos.Cv, FSub(last.out.ret, T)),
                                  last.in.sie, FMul(eos.Cv, T))
                /\ WithinRounding(
                       FSub(InternalEnergyFromDensityTemperature(last.in.rho,
                                                                 last.out.ret),
                            last.in.sie),
                       last.in.sie, FMul(eos.Cv, T))

\* A round trip that lost the temperature: the energy came from a temperature
\* above zero, and the temperature recovered from it is another one.
C3_Witness ==
    /\ last.op = "TemperatureFromDensityInternalEnergy"
    /\ \E T \in Temperatures :
        /\ T.m > 0
        /\ InternalEnergyFromDensityTemperature(last.in.rho, T) = last.in.sie
        /\ last.out.ret # T
        /\ last.out.ret.m > 0

\* C4: when P is the pressure the forward path gives at a density r and a
\* temperature T, DensityEnergyFromPressureTemperature(P, T) called with the
\* default guess ends with success and returns a density within relative
\* tolerance 1e-5 of r, in particular at and around the reference density.
C4_InversionRecoversDensity ==
    ( /\ last.op = "DensityEnergyFromPressureTemperature"
      /\ last.in.rho = Zero )
    => \A r \in Densities :
          last.in.press = PressureFromDensityTemperature(r, last.in.temp) =>
              /\ last.out.status = "SUCCESS"
              /\ last.out.returned
              /\ FLe(FAbs(FSub(last.out.rho, r)), FMul(Lit(1, 100000), r))

\* C5: when the root finder ends in a status other than success, the call
\* signals a hard error naming the operation and the inputs (the pressure and
\* the temperature asked for), in that same call and without another run of
\* the finder, and it hands no density/energy pair back to the caller.
C5_FailureIsHardErrorNamingInputs ==
    ( /\ last.op = "DensityEnergyFromPressureTemperature"
      /\ last.out.status # "SUCCESS" )
    => /\ ~last.out.returned
       /\ ~alive
       /\ last.iters <= MaxIter
       /\ Len(last.out.diag) = 1
       /\ last.out.diag[1].fatal
       /\ last.out.diag[1].operation = "JWL::DensityEnergyFromPressureTemperature"
       /\ \E i, j \in DOMAIN last.out.diag[1].values :
             /\ last.out.diag[1].values[i] = last.in.press
             /\ last.out.diag[1].values[j] = last.in.temp

\* C6: the bracket passed to the root finder contains the guess passed with
\* it: with no usable guess (incoming rho < 1e-8) the guess is the reference
\* density and the bracket spans below and above it; otherwise the bracket is
\* centered on the caller's guess.
C6_BracketContainsGuess ==
    last.op = "DensityEnergyFromPressureTemperature" =>
        /\ FLe(last.finder.a, last.finder.guess)
        /\ FLe(last.finder.guess, last.finder.b)
        /\ FLt(last.in.rho, Lit(1, 100000000)) =>
              /\ last.finder.guess = eos.rho0
              /\ FLt(last.finder.a, eos.rho0)
              /\ FLt(eos.rho0, last.finder.b)
        /\ ~FLt(last.in.rho, Lit(1, 100000000)) =>
              /\ last.finder.guess = last.in.rho
              /\ FSub(last.finder.guess, last.finder.a)
                     = FSub(last.finder.b, last.finder.guess)

\* C7: both entropy operations return the sentinel 1.0 for every input, after
\* the "entropy not enabled" diagnostic has been signalled, and return to the
\* caller, which goes on running.
C7_EntropyStub ==
    last.op \in {"EntropyFromDensityTemperature", "EntropyFromDensityInternalEnergy"} =>
        /\ last.out.ret = One
        /\ last.out.diag = <<EntropyIsNotEnabled("JWL")>>
        /\ ~last.out.diag[1].fatal
        /\ last.out.returned
        /\ alive

\* Each of the two entropy operations has been called, on a state whose
\* energy or temperature is not zero, and has returned.
C7_Witness ==
    \/ /\ last.op = "EntropyFromDensityTemperature"
       /\ last.in.temp.m > 0
       /\ last.out.returned
       /\ ncalls = MaxCalls
    \/ /\ last.op = "EntropyFromDensityInternalEnergy"
       /\ last.in.sie.m > 0
       /\ last.out.returned
       /\ ncalls = MaxCalls

\* C8 as stated: at the reference density and T = 298.15 the departure term
\* is zero: InternalEnergyFromDensityTemperature gives the reference energy
\* alone, and PressureFromDensityInternalEnergy at that energy gives
\* ReferencePressure exactly.
C8_ZeroDepartureAtAmbient ==
    /\ ( /\ last.op = "InternalEnergyFromDensityTemperature"
         /\ last.in.rho = eos.rho0
         /\ last.in.temp = Lit(29815, 100) )
       => last.out.ret = ReferenceEnergy(eos.rho0)
    /\ ( /\ last.op = "PressureFromDensityInternalEnergy"
         /\ last.in.rho = eos.rho0
         /\ last.in.sie = InternalEnergyFromDensityTemperature(eos.rho0,
                                                               Lit(29815, 100)) )
       => last.out.ret = ReferencePressure(eos.rho0)

\* C8, amended: at the reference density the departure term is zero at T = 0,
\* not at T = 298.15.  At T = 0 InternalEnergyFromDensityTemperature gives the
\* reference energy alone and PressureFromDensityInternalEnergy at that
\* energy gives ReferencePressure exactly; at T = 298.15 the energy is the
\* reference energy plus Cv * T, which is above it, and the pressure at that
\* energy is above ReferencePressure.
C8_ZeroDepartureAtZeroTemperature ==
    /\ ( /\ last.op = "InternalEnergyFromDensityTemperature"
         /\ last.in.rho = eos.rho0 )
       => /\ last.in.temp = Zero => last.out.ret = ReferenceEnergy(eos.rho0)
          /\ last.in.temp = Lit(29815, 100) =>
               /\ last.out.ret = FAdd(ReferenceEnergy(eos.rho0),
                                      FMul(eos.Cv, last.in.temp))
               /\ FLt(ReferenceEnergy(eos.rho0), last.out.ret)
    /\ ( /\ last.op = "PressureFromDensityInternalEnergy"
         /\ last.in.rho = eos.rho0 )
       => /\ last.in.sie = ReferenceEnergy(eos.rho0) =>
               last.out.ret = ReferencePressure(eos.rho0)
          /\ last.in.sie = InternalEnergyFromDensityTemperature(eos.rho0,
                                                                Lit(29815, 100)) =>
               FLt(ReferencePressure(eos.rho0), last.out.ret)

\* The model of the scenario (rho0 = 1630, Cv = 1000) was asked for the
\* pressure at the reference density and the energy of T = 298.15.
C8_Witness ==
    /\ eos.rho0 = FromInt(1630)
    /\ eos.Cv = FromInt(1000)
    /\ last.op = "PressureFromDensityInternalEnergy"
    /\ last.in.rho = eos.rho0
    /\ last.in.sie = InternalEnergyFromDensityTemperature(eos.rho0, Lit(29815, 100))
    /\ last.out.ret # ReferencePressure(eos.rho0)

\* C9: ValuesAtReferenceState returns, for every instance and whatever the
\* output arguments held before, a density equal to the rho0 and a specific
\* heat equal to the Cv given at construction.
C9_ReferenceStateSanity ==
    last.op = "ValuesAtReferenceState" =>
        /\ last.out.rho = built.rho0
        /\ last.out.cv = built.Cv

\* ValuesAtReferenceState was called with output arguments that held other
\* values, a density that is not the reference density among them.
C9_Witness ==
    /\ last.op = "ValuesAtReferenceState"
    /\ last.in.rho.m > 0
    /\ last.in.rho # built.rho0
    /\ last.in.cv.m > 0
    /\ last.in.cv # built.Cv
    /\ last.out.rho = built.rho0

ResidualDensities ==
    (IF solve.rf.status \in {"ITERATING", "NOT_BRACKETED"} /\ solve.rf.iters = 0
     THEN Densities ELSE {})
    \cup (IF solve.rf.status \in {"ITERATING", "SUCCESS", "MAX_ITER"}
          THEN {solve.rf.lo, solve.rf.hi} ELSE {})
    \cup (IF last.op = "DensityEnergyFromPressureTemperature"
             /\ last.out.status = "SUCCESS"
          THEN {last.out.rho} ELSE {})

\* The temperature of the inversion under way or just ended.
ResidualTemperature ==
    IF solve.rf.status # "NONE" THEN solve.in.temp ELSE last.in.temp

\* An inversion is under way or has just ended.
InInversion ==
    \/ solve.rf.status # "NONE"
    \/ last.op = "DensityEnergyFromPressureTemperature"

\* C11 as stated: the residual f(r) = Cv*T*r*w + ReferencePressure(r) equals
\* PressureFromDensityTemperature(r, T) at every density, so that a root of
\* f(r) = P is exactly a density at which the forward path gives P.
C11_ResidualEqualsForwardPressure ==
    InInversion =>
        \A r \in ResidualDensities :
            PofRatT(ResidualTemperature, r)
                = PressureFromDensityTemperature(r, ResidualTemperature)

\* The residual at (r, T) is within rounding of the forward pressure P there.
ResidualNear(r, T, P) ==
    WithinRounding(FSub(PofRatT(T, r), P),
                   FMul(FMul(eos.w, r),
                        FAdd(FAbs(InternalEnergyFromDensityTemperature(r, T)),
                             FAbs(FMul(eos.Cv, T)))),
                   P)

\* C11, amended: the residual and PressureFromDensityTemperature(r, T) are two
\* evaluations of one expression and agree up to rounding: they differ by at
\* most four unit roundoffs of w * r * (|e| + |Cv * T|) + |P|, where e is
\* InternalEnergyFromDensityTemperature(r, T) and P the forward pressure.  A
\* root of f(r) = P is a density at which the forward path gives P to within
\* that distance.
C11_ResidualNearForwardPressure ==
    InInversion =>
        \A r \in ResidualDensities :
            ResidualNear(r, ResidualTemperature,
                         PressureFromDensityTemperature(r, ResidualTemperature))

\* The finder is iterating on a residual that, at an end of its bracket, is
\* not the pressure the forward path gives there.
C11_Witness ==
    /\ solve.rf.status = "ITERATING"
    /\ solve.rf.iters > 0
    /\ solve.in.temp.m > 0
    /\ \E r \in {solve.rf.lo, solve.rf.hi} :
          PofRatT(solve.in.temp, r) # PressureFromDensityTemperature(r, solve.in.temp)

=============================================================================
